---- MODULE Spec2Model ----
(***************************************************************************)
(* StyleSense (src/app.py): a Streamlit script over a SQLite store and a   *)
(* text-generation service.  Every user interaction re-runs the script     *)
(* from the top against st.session_state; one action below is one such     *)
(* run, from the widget event that triggers it to the end of the run.      *)
(***************************************************************************)
EXTENDS Integers, Sequences, FiniteSets, TLC

VARIABLES users, favorites, user, profile, page, out, result, nCalls,
          now, saved, listed

vars == <<users, favorites, user, profile, page, out, result, nCalls,
          now, saved, listed>>

(* ------------------------------ bounds -------------------------------- *)

MaxRows == 4
MaxCalls == 2
MaxFavs == 3
MaxClock == 2

(* --------------------------- input domains ---------------------------- *)

None == "<None>"

Usernames == {"", "alice", "bob"}
Passwords == {"pw1", "pw2"}
Texts == {"text-A", "text-B"}
GenerationError == "<GenerationError>"
Responses == Texts \cup {GenerationError}

MinAge == 10
MaxAge == 100

Genders == {"Male", "Female"}
Ages == {MinAge, MaxAge}
BodyTypes == {"Athletic"}
PreferenceLists == {<< >>, <<"Casual">>}
ColorTexts == {"Blue"}
Budgets == {"Medium"}
Occasions == {"Party", "Office"}
Weathers == {"Cold"}
Messages == {"", "How to style denim?"}

LandingMenu == {"Login", "Register"}
AuthPages == {"Dashboard", "Upload & Recommendation", "Saved Outfits",
              "Trend Insights", "AI Chat Assistant"}
Navigation == AuthPages \cup {"Logout"}

ProfileFields == {"gender", "age", "body_type", "preferences", "colors", "budget"}

(* ---------------------------- Python values --------------------------- *)

\* bool(x) of a str-or-None value: None and "" are falsy
Truthy(x) == x # None /\ x # ""

\* st.session_state.profile = {}
EmptyProfile == [k \in {} |-> 0]

\* a profile check that lets the empty dict through
DictTruthy_Always(d) == TRUE

\* bool(d) of a dict: falsy iff it has no key
DictTruthy(d) == DOMAIN d # {}

(* -------------------------- persistence store ------------------------- *)

RECURSIVE SelectWhere(_, _)
\* rows of tbl, in rowid order, whose username column equals username
SelectWhere(tbl, username) ==
    IF tbl = << >> THEN << >>
    ELSE LET rest == SelectWhere(Tail(tbl), username)
         IN IF Head(tbl).username = username
            THEN <<Head(tbl)>> \o rest
            ELSE rest

\* users(username TEXT UNIQUE, password TEXT): the UNIQUE index
HasUsername(tbl, username) == \E i \in 1..Len(tbl) : tbl[i].username = username

\* register_user against a users table without the UNIQUE constraint
register_user_NoUnique(tbl, username, password) ==
    [ok |-> TRUE,
     users |-> Append(tbl, [username |-> username, password |-> password])]

\* register_user: INSERT; any exception (the UNIQUE violation) gives False
register_user(tbl, username, password) ==
    IF HasUsername(tbl, username)
    THEN [ok |-> FALSE, users |-> tbl]
    ELSE [ok |-> TRUE,
          users |-> Append(tbl, [username |-> username, password |-> password])]

\* cursor.fetchone(): the first row of a result set, NoRow (None) if empty
NoRow == << >>
fetchone(rows) == IF rows = << >> THEN NoRow ELSE <<Head(rows)>>

RECURSIVE SelectLogin(_, _, _)
\* SELECT * FROM users WHERE username=? AND password=?, in rowid order
SelectLogin(tbl, username, password) ==
    IF tbl = << >> THEN << >>
    ELSE LET rest == SelectLogin(Tail(tbl), username, password)
         IN IF Head(tbl).username = username /\ Head(tbl).password = password
            THEN <<Head(tbl)>> \o rest
            ELSE rest

\* login_user with the password condition dropped from the WHERE clause
login_user_AnyPassword(tbl, username, password) ==
    fetchone(SelectWhere(tbl, username))

\* login_user: the matching row, or None
login_user(tbl, username, password) ==
    fetchone(SelectLogin(tbl, username, password))

\* save_favorite: INSERT INTO favorites (username, outfit, created_at)
save_favorite(tbl, username, outfit, clock) ==
    Append(tbl, [username |-> username, outfit |-> outfit, created_at |-> clock])

\* get_favorites with the WHERE clause dropped
get_favorites_AllRows(tbl, username) ==
    [i \in 1..Len(tbl) |-> <<tbl[i].outfit, tbl[i].created_at>>]

\* get_favorites: SELECT outfit, created_at FROM favorites WHERE username=?
get_favorites(tbl, username) ==
    LET rows == SelectWhere(tbl, username)
    IN [i \in 1..Len(rows) |-> <<rows[i].outfit, rows[i].created_at>>]

(* ------------------------------ prompts ------------------------------- *)

KeyError == <<"KeyError">>

\* generate_recommendation's f-string: profile['gender'] ... profile['budget']
RecommendationPrompt(p, occasion, weather) ==
    IF ProfileFields \subseteq DOMAIN p
    THEN <<"recommendation", p["gender"], p["age"], p["body_type"],
           p["preferences"], p["colors"], p["budget"], occasion, weather>>
    ELSE KeyError

(* ------------------------------ messages ------------------------------ *)

MsgCreated == "Account Created! Please login."
MsgExists == "Username already exists."
MsgInvalid == "Invalid Credentials"
MsgProfileSaved == "Profile Saved Successfully!"
MsgFillProfile == "Please fill your profile first."
MsgCompleteProfile == "Please complete profile first."
OutRecommendation == "markdown(result) + Save This Recommendation"
OutTrends == "markdown(trends)"
OutReply == "markdown(reply)"
OutUncaught == "uncaught exception from generate_content"
OutKeyError == "uncaught KeyError"
OutNothing == ""

(* ------------------------------- state -------------------------------- *)

Init ==
    /\ users = << >>
    /\ favorites = << >>
    /\ user = None
    /\ profile = EmptyProfile
    /\ page = "Login"
    /\ out = OutNothing
    /\ result = None
    /\ nCalls = 0
    /\ now = 0
    /\ saved = [u \in Usernames |-> << >>]
    /\ listed = << >>

Store == <<now, saved>>

\* the landing branch is rendered iff `not st.session_state.user`
Landing == ~Truthy(user)

\* sidebar "Menu" selectbox on the landing page
SelectMenu(menu) ==
    /\ Landing
    /\ menu \in LandingMenu
    /\ page' = menu
    /\ out' = OutNothing
    /\ UNCHANGED <<users, favorites, user, profile, result, nCalls, listed, Store>>

\* "Register" button
Register(username, password) ==
    /\ Landing
    /\ page = "Register"
    /\ Len(users) < MaxRows
    /\ LET r == register_user(users, username, password)
       IN /\ users' = r.users
          /\ out' = IF r.ok THEN MsgCreated ELSE MsgExists
    /\ UNCHANGED <<favorites, user, profile, page, result, nCalls, listed, Store>>

\* "Login" button; st.rerun() after a hit re-runs the script, which
\* renders the dashboard branch iff the new session user is truthy
Login(username, password) ==
    /\ Landing
    /\ page = "Login"
    /\ IF login_user(users, username, password) # NoRow
       THEN /\ user' = username
            /\ page' = IF Truthy(username) THEN "Dashboard" ELSE "Login"
            /\ out' = OutNothing
       ELSE /\ out' = MsgInvalid
            /\ UNCHANGED <<user, page>>
    /\ UNCHANGED <<users, favorites, profile, result, nCalls, listed, Store>>

\* sidebar "Navigation" selectbox; "Logout" clears the user and reruns into
\* the landing branch, every other page is rendered afresh
Navigate(target) ==
    /\ ~Landing
    /\ target \in Navigation
    /\ IF target = "Logout"
       THEN /\ user' = None
            /\ page' = "Login"
            /\ listed' = << >>
       ELSE /\ page' = target
            /\ listed' = IF target = "Saved Outfits"
                         THEN get_favorites(favorites, user)
                         ELSE << >>
            /\ UNCHANGED user
    /\ out' = OutNothing
    /\ result' = None
    /\ UNCHANGED <<users, favorites, profile, nCalls, Store>>

\* a Save Profile handler that forgets the budget key
SaveProfile_NoBudget(gender, age, body_type, preferences, colors, budget) ==
    /\ ~Landing
    /\ page = "Dashboard"
    /\ profile' = [k \in ProfileFields \ {"budget"} |->
                      CASE k = "gender" -> gender
                        [] k = "age" -> age
                        [] k = "body_type" -> body_type
                        [] k = "preferences" -> preferences
                        [] OTHER -> colors]
    /\ out' = MsgProfileSaved
    /\ UNCHANGED <<users, favorites, user, page, result, nCalls, listed, Store>>

\* "Save Profile" button on the Dashboard page
SaveProfile(gender, age, body_type, preferences, colors, budget) ==
    /\ ~Landing
    /\ page = "Dashboard"
    /\ profile' = [gender |-> gender, age |-> age, body_type |-> body_type,
                   preferences |-> preferences, colors |-> colors,
                   budget |-> budget]
    /\ out' = MsgProfileSaved
    /\ UNCHANGED <<users, favorites, user, page, result, nCalls, listed, Store>>

\* "Generate Recommendations" button; response is what
\* model.generate_content returns, or the exception it raises
GenerateRecommendations(occasion, weather, response) ==
    /\ ~Landing
    /\ page = "Upload & Recommendation"
    /\ IF ~DictTruthy(profile)
       THEN /\ out' = MsgFillProfile
            /\ result' = None
            /\ UNCHANGED nCalls
       ELSE IF RecommendationPrompt(profile, occasion, weather) = KeyError
       THEN /\ out' = OutKeyError
            /\ result' = None
            /\ UNCHANGED nCalls
       ELSE /\ nCalls < MaxCalls
            /\ nCalls' = nCalls + 1
            /\ IF response = GenerationError
               THEN /\ out' = OutUncaught
                    /\ result' = None
               ELSE /\ out' = OutRecommendation
                    /\ result' = response
    /\ UNCHANGED <<users, favorites, user, profile, page, listed, Store>>

\* "Save This Recommendation" button: it exists only inside the
\* `if st.button("Generate Recommendations")` block, so the run its click
\* triggers finds the outer button False and skips the whole block
SaveThisRecommendation ==
    /\ ~Landing
    /\ page = "Upload & Recommendation"
    /\ out = OutRecommendation
    /\ out' = OutNothing
    /\ result' = None
    /\ UNCHANGED <<users, favorites, user, profile, page, nCalls, listed, Store>>

\* "Generate Trends" button
GenerateTrends(response) ==
    /\ ~Landing
    /\ page = "Trend Insights"
    /\ nCalls < MaxCalls
    /\ nCalls' = nCalls + 1
    /\ IF response = GenerationError
       THEN /\ out' = OutUncaught
            /\ result' = None
       ELSE /\ out' = OutTrends
            /\ result' = response
    /\ UNCHANGED <<users, favorites, user, profile, page, listed, Store>>

\* "Ask" button on the chat page; fashion_chatbot reads the profile with
\* dict.get, which cannot raise
Ask(user_message, response) ==
    /\ ~Landing
    /\ page = "AI Chat Assistant"
    /\ IF ~DictTruthy(profile)
       THEN /\ out' = MsgCompleteProfile
            /\ result' = None
            /\ UNCHANGED nCalls
       ELSE /\ nCalls < MaxCalls
            /\ nCalls' = nCalls + 1
            /\ IF response = GenerationError
               THEN /\ out' = OutUncaught
                    /\ result' = None
               ELSE /\ out' = OutReply
                    /\ result' = response
    /\ UNCHANGED <<users, favorites, user, profile, page, listed, Store>>

Next ==
    \/ \E menu \in LandingMenu : SelectMenu(menu)
    \/ \E username \in Usernames, password \in Passwords : Register(username, password)
    \/ \E username \in Usernames, password \in Passwords : Login(username, password)
    \/ \E target \in Navigation : Navigate(target)
    \/ \E gender \in Genders, age \in Ages, body_type \in BodyTypes,
          preferences \in PreferenceLists, colors \in ColorTexts,
          budget \in Budgets :
            SaveProfile(gender, age, body_type, preferences, colors, budget)
    \/ \E occasion \in Occasions, weather \in Weathers, response \in Responses :
            GenerateRecommendations(occasion, weather, response)
    \/ SaveThisRecommendation
    \/ \E response \in Responses : GenerateTrends(response)
    \/ \E user_message \in Messages, response \in Responses : Ask(user_message, response)

Spec == Init /\ [][Next]_vars

(* ----------------- the persistence store, called directly -------------- *)

\* datetime.now() moves forward between calls
Tick ==
    /\ now < MaxClock
    /\ now' = now + 1
    /\ UNCHANGED <<users, favorites, user, profile, page, out, result, nCalls,
                   saved, listed>>

\* a call save_favorite(username, outfit)
SaveFavoriteCall(username, outfit) ==
    /\ Len(favorites) < MaxFavs
    /\ favorites' = save_favorite(favorites, username, outfit, now)
    /\ saved' = [saved EXCEPT ![username] = Append(@, <<outfit, now>>)]
    /\ UNCHANGED <<users, user, profile, page, out, result, nCalls, now, listed>>

\* a call get_favorites(username)
GetFavoritesCall(username) ==
    /\ listed' = get_favorites(favorites, username)
    /\ UNCHANGED <<users, favorites, user, profile, page, out, result, nCalls,
                   now, saved>>

StoreNext ==
    \/ Tick
    \/ \E username \in Usernames, outfit \in Texts : SaveFavoriteCall(username, outfit)
    \/ \E username \in Usernames : GetFavoritesCall(username)

StoreSpec == Init /\ [][StoreNext]_vars

(* ------------------------------- claims -------------------------------- *)

Row(username, password) == [username |-> username, password |-> password]
Registered(username, password) ==
    \E i \in 1..Len(users) : users[i] = Row(username, password)
UsernameTaken(username) ==
    \E i \in 1..Len(users) : users[i].username = username

\* C1: the first registration of a username reports success and adds exactly
\* one account row; every later registration of that username, with any
\* password, reports failure and leaves the accounts table unchanged; so no
\* two account rows ever share a username.
C1_RegisterOnce ==
    /\ [](\A i, j \in 1..Len(users) :
            users[i].username = users[j].username => i = j)
    /\ [][\A u \in Usernames, p \in Passwords :
            Register(u, p) =>
                IF UsernameTaken(u)
                THEN out' = MsgExists /\ users' = users
                ELSE out' = MsgCreated /\ users' = Append(users, Row(u, p))]_vars

\* C1 witness: a second registration of an existing username was refused
C1_Witness ==
    /\ out = MsgExists
    /\ page = "Register"
    /\ Len(users) >= 2

\* C2: a login whose (username, password) pair matches no account row shows
\* Invalid Credentials and leaves the session user unchanged (anonymous); a
\* login sets the session user only to a username whose registered password
\* was supplied, so a non-null session user always names an account.
C2_LoginExactMatch ==
    /\ [](user # None => UsernameTaken(user))
    /\ [][\A u \in Usernames, p \in Passwords :
            Login(u, p) =>
                IF Registered(u, p)
                THEN user' = u
                ELSE out' = MsgInvalid /\ user' = user /\ ~Truthy(user')]_vars

\* C2 witness: a login with a registered username and a wrong password was
\* rejected
C2_Witness ==
    /\ out = MsgInvalid
    /\ page = "Login"
    /\ user = None
    /\ \E u \in Usernames : UsernameTaken(u) /\ \E p \in Passwords : ~Registered(u, p)

EmptyProfileErrors == {MsgFillProfile, MsgCompleteProfile}

\* C3: with an empty session profile, Generate Recommendations and Ask show
\* the empty-profile error and do not call the Generation Client; on these
\* two paths a call is made only when the profile is non-empty.
C3_EmptyProfileNoCall ==
    [][\A o \in Occasions, w \in Weathers, m \in Messages, r \in Responses :
        (GenerateRecommendations(o, w, r) \/ Ask(m, r)) =>
            /\ profile = EmptyProfile =>
                   nCalls' = nCalls /\ out' \in EmptyProfileErrors
            /\ nCalls' # nCalls => profile # EmptyProfile]_vars

\* C3 witness: a logged-in user with no profile was shown the error, and the
\* Generation Client has not been called
C3_Witness ==
    /\ Truthy(user)
    /\ profile = EmptyProfile
    /\ out \in EmptyProfileErrors
    /\ nCalls = 0

\* C4: a Generation Client failure during a recommendation, trend or chat
\* request reaches the user as a GenerationFailure error of the view, with
\* the session user and profile unchanged, and the run is not ended by an
\* uncaught exception.
C4_GenerationFailureHandled ==
    [][\A o \in Occasions, w \in Weathers, m \in Messages :
        /\ \/ GenerateRecommendations(o, w, GenerationError)
           \/ GenerateTrends(GenerationError)
           \/ Ask(m, GenerationError)
        /\ nCalls' # nCalls
        => /\ out' = "GenerationFailure"
           /\ out' # OutUncaught
           /\ user' = user
           /\ profile' = profile]_vars

\* C5: pressing Save This Recommendation under a displayed recommendation
\* adds exactly one favorites row, holding the session username and the
\* displayed text.
C5_SaveCreatesFavorite ==
    [][SaveThisRecommendation =>
        /\ Len(favorites') = Len(favorites) + 1
        /\ SubSeq(favorites', 1, Len(favorites)) = favorites
        /\ favorites'[Len(favorites')].username = user
        /\ favorites'[Len(favorites')].outfit = result]_vars

\* C6: for every username u, get_favorites(u) is exactly the sequence of
\* (text, timestamp) pairs saved with username u, in the order they were
\* saved, whatever was saved for other usernames in between; it is empty
\* when nothing was saved for u.
C6_ListFavorites ==
    /\ [](\A u \in Usernames : get_favorites(favorites, u) = saved[u])
    /\ [][\A u \in Usernames : GetFavoritesCall(u) => listed' = saved[u]]_vars

\* C6 witness: saves for two usernames were interleaved and one of them was
\* listed
C6_Witness ==
    /\ Len(favorites) = 3
    /\ favorites[1].username = "alice"
    /\ favorites[2].username = "bob"
    /\ favorites[3].username = "alice"
    /\ favorites[1].outfit # favorites[3].outfit
    /\ listed = saved["alice"]
    /\ Len(listed) = 2

\* C7: after a logout the session profile is empty.
C7_LogoutDiscardsProfile ==
    [][Navigate("Logout") => profile' = EmptyProfile]_vars

\* C8: every favorites row carries a username that has an account row.
C8_FavoritesReferenceAccounts ==
    \A i \in 1..Len(favorites) : UsernameTaken(favorites[i].username)

\* C9: after every login that finds the account row, the run that follows
\* renders an authenticated view, not the landing view.
C9_LoginAuthenticates ==
    [][\A u \in Usernames, p \in Passwords :
        Login(u, p) /\ login_user(users, u, p) # NoRow =>
            Truthy(user') /\ page' \in AuthPages]_vars

\* C10: the session profile is either empty or holds all six fields, and no
\* run of generate_recommendation ends in a KeyError.
C10_ProfileComplete ==
    /\ (DOMAIN profile = {} \/ DOMAIN profile = ProfileFields)
    /\ out # OutKeyError

\* C10 witness: generate_recommendation ran on a saved profile and its
\* result is displayed
C10_Witness ==
    /\ out = OutRecommendation
    /\ result \in Texts
    /\ DOMAIN profile = ProfileFields
====
